---- MODULE Spec2Model ----
(***************************************************************************)
(* A model of trendfit's bootstrap engine (bootstrap/_bootstrap.py) and of *)
(* the broken-trend model fit (models/_models.py).                         *)
(*                                                                         *)
(* Three specifications share the module:                                  *)
(*   SpecBlock  BlockARWild construction and _generate_bootstrap_err       *)
(*   SpecBoot   BootstrapEstimator.fit / get_ci_bounds /                   *)
(*              generate_bootstrap_sample                                  *)
(*   SpecTrend  LinearBrokenTrendFourier.fit                               *)
(***************************************************************************)
EXTENDS Integers, Sequences, FiniteSets, TLC

VARIABLES
    \* ---- SpecBlock ----
    t_size,      \* size of the fitted model's time grid (model._t.size)
    bw,          \* the BlockARWild instance: None, or its attributes
    gen,         \* outcome of the last _generate_bootstrap_err call
    \* ---- SpecBoot ----
    conf,            \* constructor arguments: n_samples, save_models, use_dask
    heap,            \* model objects by identity: 0 is self.model, i the copy of draw i
    est_fitted,      \* the estimator's own _fitted flag
    parameter_dists, \* self._parameter_dists
    models,          \* self._models
    pc,              \* "idle", or "draws" while _fit runs its draws
    draw,            \* per draw: position in fit_sample and its locals mb, yb, pb
    call,            \* the public call in progress or last completed, and how it ended
    ret,             \* value returned by the last get_ci_bounds
    n_fits,          \* number of fit calls made on the estimator
    base_fit_calls,  \* number of fit calls made on object 0
    base_snapshot,   \* object 0 right after the base fit of the last fit call
    \* ---- SpecTrend ----
    grid,        \* the data: size of the time grid t = 0, 1, .., n-1 and where
                 \* the slope of y really breaks
    tm,          \* the LinearBrokenTrendFourier instance: None, or its attributes
    opt,         \* dual_annealing: phase, evaluations made, best point so far
    tfit         \* how the last fit call ended and what it returned

blockVars == <<t_size, bw, gen>>

bootVars == <<conf, heap, est_fitted, parameter_dists, models, pc, draw, call,
              ret, n_fits, base_fit_calls, base_snapshot>>

trendVars == <<grid, tm, opt, tfit>>

vars == <<t_size, bw, gen,
          conf, heap, est_fitted, parameter_dists, models, pc, draw, call,
          ret, n_fits, base_fit_calls, base_snapshot,
          grid, tm, opt, tfit>>

\* Python's None and an optional value: <<>> is None, <<x>> holds x.
None == <<>>
Some(x) == <<x>>

(***************************************************************************)
(* Bounds of the model.                                                    *)
(***************************************************************************)
MaxN == 7
MaxBlockSize == 8
MaxSamples == 2
MaxFits == 2
ConfDen == 4
MaxGrid == 5
MaxEvals == 2

(***************************************************************************)
(* Integer helpers.                                                        *)
(***************************************************************************)
Max(a, b) == IF a >= b THEN a ELSE b

\* Python's // on integers: floor division, any non-zero divisor.
FloorDiv(a, b) ==
    IF b > 0
    THEN (IF a >= 0 THEN a \div b ELSE -(((-a) + b - 1) \div b))
    ELSE (IF a >= 0 THEN -((a + (-b) - 1) \div (-b)) ELSE (-a) \div (-b))

RECURSIVE SumSeq(_)
SumSeq(s) == IF s = <<>> THEN 0 ELSE Head(s) + SumSeq(Tail(s))

RECURSIVE Concat(_)
Concat(ss) == IF ss = <<>> THEN <<>> ELSE Head(ss) \o Concat(Tail(ss))

\* np.arange-like index grid 0 .. n-1, standing for an array of n elements.
Arange(n) == [i \in 1..n |-> i - 1]

(***************************************************************************)
(* np.array_split(ary, k): divmod(len, k) gives (each, extras); the first  *)
(* `extras` sections hold each+1 elements, the others `each`.              *)
(***************************************************************************)
SectionSizes(total, k) ==
    [i \in 1..k |-> IF i <= total % k THEN (total \div k) + 1 ELSE total \div k]

array_split(ary, k) ==
    LET sizes == SectionSizes(Len(ary), k)
        start(i) == SumSeq(SubSeq(sizes, 1, i - 1))
    IN  [i \in 1..k |-> SubSeq(ary, start(i) + 1, start(i) + sizes[i])]

(***************************************************************************)
(* The autoregressive coefficient.  gamma is represented by its logarithm  *)
(* in base 0.01, in hundredths: the integer e stands for 0.01^(e/100).     *)
(*   th = 0.01**(1 / (1.75 * size**(1/3)));  gamma = th**(1 / (1/365.25))  *)
(* so that log_0.01(gamma) = 365.25 / (1.75 * size^(1/3)).                 *)
(***************************************************************************)
\* floor(100 * size^(1/3))
Cbrt100(size) ==
    CHOOSE r \in 0..(100 * size) :
        r * r * r <= size * 1000000 /\ (r + 1) * (r + 1) * (r + 1) > size * 1000000

DefaultGamma(size) == 365250000 \div (175 * Cbrt100(size))

\* lines 167-172: the coefficient computed at the top of
\* _generate_bootstrap_err from the array t it is called with.
GammaOf(ar_coef, t) ==
    IF ar_coef = None THEN DefaultGamma(Len(t)) ELSE ar_coef[1]

\* line 176
NBlocksCeil(size, block_size) == Max(FloorDiv(size + block_size - 1, block_size), 1)
NBlocks(size, block_size) == Max(FloorDiv(size, block_size), 1)

\* lines 181-183: the gamma _gen_errors_block passes to the Cholesky
\* factorisation of block tb; it is the closure variable computed from t.
BlockGammaPerBlock(ar_coef, t, tb) == GammaOf(ar_coef, tb)
BlockGamma(ar_coef, t, tb) == GammaOf(ar_coef, t)

(***************************************************************************)
(* The parts of the state a specification does not use stay as they are    *)
(* here.                                                                   *)
(***************************************************************************)
NoCall == [op |-> "none", result |-> "none", arg |-> 0, ndone |-> 0]

BlockIdle ==
    /\ t_size = 1
    /\ bw = None
    /\ gen = None

BootIdle ==
    /\ conf = [n_samples |-> 1, save_models |-> FALSE, use_dask |-> FALSE]
    /\ heap = [o \in 0..MaxSamples |-> None]
    /\ est_fitted = FALSE
    /\ parameter_dists = <<>>
    /\ models = <<>>
    /\ pc = "idle"
    /\ draw = <<>>
    /\ call = NoCall
    /\ ret = <<>>
    /\ n_fits = 0
    /\ base_fit_calls = 0
    /\ base_snapshot = None

OptIdle == [phase |-> "idle", evals |-> 0, x |-> None, fun |-> None]

NoFit == [status |-> "none", value |-> None]

TrendIdle ==
    /\ grid = [n |-> 3, y_break |-> 0]
    /\ tm = None
    /\ opt = OptIdle
    /\ tfit = NoFit


(***************************************************************************)
(* SpecBlock                                                               *)
(***************************************************************************)
ArCoefs == {None, Some(50), Some(100)}

InitBlock ==
    /\ t_size \in 1..MaxN
    /\ bw = None
    /\ gen = None
    /\ BootIdle
    /\ TrendIdle

\* BlockARWild.__init__: stores block_size and ar_coef as given.
BlockARWildInit(block_size, ar_coef) ==
    /\ bw = None
    /\ bw' = Some([block_size |-> block_size, ar_coef |-> ar_coef])
    /\ UNCHANGED <<t_size, gen>>
    /\ UNCHANGED bootVars
    /\ UNCHANGED trendVars

\* BlockARWild._generate_bootstrap_err(model._t, model.residuals, random_state)
GenerateBootstrapErr ==
    /\ bw # None
    /\ LET self == bw[1]
           t == Arange(t_size)
       IN  IF self.block_size = 0
           THEN gen' = Some([status |-> "ZeroDivisionError"])
           ELSE LET n_blocks == NBlocks(t_size, self.block_size)
                    t_blocks == array_split(t, n_blocks)
                IN  gen' = Some([status |-> "ok",
                            n_blocks |-> n_blocks,
                            t_blocks |-> t_blocks,
                            residuals_blocks |-> array_split(Arange(t_size), n_blocks),
                            iid_blocks |-> array_split(Arange(t_size), n_blocks),
                            block_gamma |->
                                [i \in 1..n_blocks |->
                                    BlockGamma(self.ar_coef, t, t_blocks[i])]])
    /\ UNCHANGED <<t_size, bw>>
    /\ UNCHANGED bootVars
    /\ UNCHANGED trendVars

NextBlock ==
    \/ \E bs \in (-1)..MaxBlockSize, ac \in ArCoefs : BlockARWildInit(bs, ac)
    \/ GenerateBootstrapErr

SpecBlock == InitBlock /\ [][NextBlock]_vars

(***************************************************************************)
(* The wrapped model, seen through its contract (fit, parameters,          *)
(* residuals, predicted values, fitted flag).  A response vector is        *)
(* abstracted to an integer; fit determines the parameters from it.        *)
(* Every parameter value is a vector (a scalar is a vector of length 1).   *)
(***************************************************************************)
Data == {1}
Noise == {0, 1}

ParamKeys == {"trend", "fourier_terms"}

ModelNew == [fitted |-> FALSE, y |-> None, y_predict |-> None, parameters |-> <<>>]

Estimate(y) == [k \in ParamKeys |-> IF k = "trend" THEN <<y>> ELSE <<y, 0 - y>>]

\* BaseEstimator.fit: the _fitted flag once _fit has returned.
FittedAfterFit == TRUE

\* BaseEstimator.fit of a model: stores the data, runs _fit, stores the
\* predicted values and sets _fitted.
ModelFit(m, y) ==
    [fitted |-> FittedAfterFit, y |-> Some(y), y_predict |-> Some(y), parameters |-> Estimate(y)]

\* _generate_bootstrap_sample: model._y_predict + errors, the errors drawn
\* with random_state from the residuals; reads the model, writes nothing.
GenerateSamples(m) == {m.y_predict[1] + e : e \in Noise}

DrawErrors == {"LinAlgError"}
RefitErrors == {"IndexError"}

(***************************************************************************)
(* np.quantile(v, q, axis=0), method "linear", for q = num/den: on the     *)
(* sorted values the virtual index is q*(N-1); the result interpolates     *)
(* between its two neighbours.  The operator returns den * quantile.       *)
(***************************************************************************)
RECURSIVE Insert(_, _)
Insert(x, s) ==
    IF s = <<>> THEN <<x>>
    ELSE IF x <= Head(s) THEN <<x>> \o s
    ELSE <<Head(s)>> \o Insert(x, Tail(s))

RECURSIVE Sort(_)
Sort(s) == IF s = <<>> THEN <<>> ELSE Insert(Head(s), Sort(Tail(s)))

Quantile1(v, num, den) ==
    LET s == Sort(v)
        h == num * (Len(s) - 1)
        lo == (h \div den) + 1
        hi == IF lo < Len(s) THEN lo + 1 ELSE lo
    IN  den * s[lo] + (h % den) * (s[hi] - s[lo])

\* along axis 0 of a list of equal-length vectors
np_quantile(v, num, den) ==
    [e \in 1..Len(v[1]) |-> Quantile1([j \in 1..Len(v) |-> v[j][e]], num, den)]

\* get_ci_bounds, lines 95-104, for confidence_level = c / ConfDen:
\* alpha/2 = (ConfDen - c) / (2 ConfDen), 1 - alpha/2 = (ConfDen + c) / (2 ConfDen).
ci_bounds_alpha_is_level(dists, c) ==
    [k \in DOMAIN dists |->
        <<np_quantile(dists[k], c, 2 * ConfDen),
          np_quantile(dists[k], 2 * ConfDen - c, 2 * ConfDen)>>]
ci_bounds(dists, c) ==
    [k \in DOMAIN dists |->
        <<np_quantile(dists[k], ConfDen - c, 2 * ConfDen),
          np_quantile(dists[k], ConfDen + c, 2 * ConfDen)>>]

(***************************************************************************)
(* SpecBoot                                                                *)
(***************************************************************************)
Draws == 1..conf.n_samples

DrawNew == [pc |-> "pending", mb |-> None, yb |-> None, pb |-> <<>>, err |-> "none"]

\* BootstrapEstimator.__init__ around a model that is new or already fitted.
InitBoot ==
    /\ BlockIdle
    /\ TrendIdle
    /\ conf \in [n_samples : 1..MaxSamples, save_models : BOOLEAN, use_dask : BOOLEAN]
    /\ \E m \in {ModelNew} \cup {ModelFit(ModelNew, y) : y \in Data} :
           heap = [o \in 0..MaxSamples |-> IF o = 0 THEN Some(m) ELSE None]
    /\ est_fitted = FALSE
    /\ parameter_dists = <<>>
    /\ models = <<>>
    /\ pc = "idle"
    /\ draw = <<>>
    /\ call = NoCall
    /\ ret = <<>>
    /\ n_fits = 0
    /\ base_fit_calls = 0
    /\ base_snapshot = None

\* fit(t, y) up to line 58: self.model.fit(t, y); the draws are then pending.
FitStart(y) ==
    /\ pc = "idle"
    /\ n_fits < MaxFits
    /\ LET fitted == ModelFit(heap[0][1], y)
       IN  /\ heap' = [o \in 0..MaxSamples |-> IF o = 0 THEN Some(fitted) ELSE None]
           /\ base_snapshot' = Some(fitted)
    /\ base_fit_calls' = base_fit_calls + 1
    /\ n_fits' = n_fits + 1
    /\ pc' = "draws"
    /\ draw' = [i \in Draws |-> DrawNew]
    /\ call' = [op |-> "fit", result |-> "running", arg |-> y, ndone |-> 0]
    /\ ret' = <<>>
    /\ UNCHANGED <<conf, est_fitted, parameter_dists, models>>
    /\ UNCHANGED blockVars
    /\ UNCHANGED trendVars

\* Draw i may take its next step: any time under dask, in turn otherwise
\* (the list comprehension of line 79 stops at the first exception).
MayStep(i) ==
    /\ pc = "draws"
    /\ \/ conf.use_dask
       \/ \A j \in 1..(i - 1) : draw[j].pc = "done"

\* line 61: the object copy.deepcopy returns for draw i
deepcopy_alias(i) == 0
deepcopy(i) == i

\* line 61: mb = copy.deepcopy(self.model)
DrawCopy(i) ==
    /\ MayStep(i)
    /\ draw[i].pc = "pending"
    /\ LET o == deepcopy(i)
       IN  /\ heap' = [heap EXCEPT ![o] = heap[0]]
           /\ draw' = [draw EXCEPT ![i].pc = "copied", ![i].mb = Some(o)]
    /\ UNCHANGED <<conf, est_fitted, parameter_dists, models, pc, call, ret,
                   n_fits, base_fit_calls, base_snapshot>>
    /\ UNCHANGED blockVars
    /\ UNCHANGED trendVars

\* line 62: yb = self.generate_bootstrap_sample(random_state)
DrawSample(i) ==
    /\ MayStep(i)
    /\ draw[i].pc = "copied"
    /\ IF ~heap[0][1].fitted
       THEN draw' = [draw EXCEPT ![i].pc = "failed", ![i].err = "ValueError"]
       ELSE \/ \E yb \in GenerateSamples(heap[0][1]) :
                  draw' = [draw EXCEPT ![i].pc = "sampled", ![i].yb = Some(yb)]
            \/ \E e \in DrawErrors :
                  draw' = [draw EXCEPT ![i].pc = "failed", ![i].err = e]
    /\ UNCHANGED <<conf, heap, est_fitted, parameter_dists, models, pc, call, ret,
                   n_fits, base_fit_calls, base_snapshot>>
    /\ UNCHANGED blockVars
    /\ UNCHANGED trendVars

\* lines 64-71: mb.fit(t, yb); pb = mb.parameters.copy(); return
DrawRefit(i) ==
    /\ MayStep(i)
    /\ draw[i].pc = "sampled"
    /\ LET o == draw[i].mb[1]
           fitted == ModelFit(heap[o][1], draw[i].yb[1])
       IN  \/ /\ heap' = [heap EXCEPT ![o] = Some(fitted)]
              /\ draw' = [draw EXCEPT ![i].pc = "done", ![i].pb = fitted.parameters]
              /\ base_fit_calls' = base_fit_calls + (IF o = 0 THEN 1 ELSE 0)
           \/ /\ \E e \in RefitErrors :
                     draw' = [draw EXCEPT ![i].pc = "failed", ![i].err = e]
              /\ base_fit_calls' = base_fit_calls + (IF o = 0 THEN 1 ELSE 0)
              /\ UNCHANGED heap
    /\ UNCHANGED <<conf, est_fitted, parameter_dists, models, pc, call, ret,
                   n_fits, base_snapshot>>
    /\ UNCHANGED blockVars
    /\ UNCHANGED trendVars

\* number of draws whose fit_sample has returned
NDone == Cardinality({i \in Draws : draw[i].pc = "done"})

\* lines 85-86 for one result pb
AppendParams(dists, pb) ==
    [k \in DOMAIN dists \cup DOMAIN pb |->
        (IF k \in DOMAIN dists THEN dists[k] ELSE <<>>)
            \o (IF k \in DOMAIN pb THEN <<pb[k]>> ELSE <<>>)]

RECURSIVE Aggregate(_, _)
Aggregate(dists, pbs) ==
    IF pbs = <<>> THEN dists
    ELSE Aggregate(AppendParams(dists, Head(pbs)), Tail(pbs))

\* lines 81-86, then the return of fit: every draw returned, the results
\* are appended in draw order and the estimator is marked fitted.
FitAggregate ==
    /\ pc = "draws"
    /\ \A i \in Draws : draw[i].pc = "done"
    /\ parameter_dists' = Aggregate(parameter_dists, [i \in Draws |-> draw[i].pb])
    /\ models' = IF conf.save_models
                 THEN models \o [i \in Draws |-> heap[draw[i].mb[1]][1]]
                 ELSE models
    /\ est_fitted' = FittedAfterFit
    /\ heap' = [o \in 0..MaxSamples |-> IF o = 0 THEN heap[0] ELSE None]
    /\ draw' = <<>>
    /\ pc' = "idle"
    /\ call' = [call EXCEPT !.result = "ok", !.ndone = NDone]
    /\ UNCHANGED <<conf, ret, n_fits, base_fit_calls, base_snapshot>>
    /\ UNCHANGED blockVars
    /\ UNCHANGED trendVars

\* An exception of a draw leaves _fit at line 77 or 79, before line 81.
FitAbortKeepCompleted ==
    /\ pc = "draws"
    /\ \E i \in Draws :
          /\ draw[i].pc = "failed"
          /\ call' = [call EXCEPT !.result = draw[i].err, !.ndone = NDone]
    /\ parameter_dists' =
          Aggregate(parameter_dists,
                    SelectSeq([i \in Draws |-> draw[i].pb], LAMBDA pb : pb # <<>>))
    /\ heap' = [o \in 0..MaxSamples |-> IF o = 0 THEN heap[0] ELSE None]
    /\ draw' = <<>>
    /\ pc' = "idle"
    /\ UNCHANGED <<conf, est_fitted, models, ret, n_fits,
                   base_fit_calls, base_snapshot>>
    /\ UNCHANGED blockVars
    /\ UNCHANGED trendVars
FitAbort ==
    /\ pc = "draws"
    /\ \E i \in Draws :
          /\ draw[i].pc = "failed"
          /\ call' = [call EXCEPT !.result = draw[i].err, !.ndone = NDone]
    /\ heap' = [o \in 0..MaxSamples |-> IF o = 0 THEN heap[0] ELSE None]
    /\ draw' = <<>>
    /\ pc' = "idle"
    /\ UNCHANGED <<conf, est_fitted, parameter_dists, models, ret, n_fits,
                   base_fit_calls, base_snapshot>>
    /\ UNCHANGED blockVars
    /\ UNCHANGED trendVars

\* get_ci_bounds(confidence_level = c / ConfDen)
GetCIBounds(c) ==
    /\ pc = "idle"
    /\ IF ~est_fitted
       THEN /\ call' = [op |-> "get_ci_bounds", result |-> "ValueError", arg |-> c,
                        ndone |-> 0]
            /\ ret' = <<>>
       ELSE /\ call' = [op |-> "get_ci_bounds", result |-> "ok", arg |-> c,
                        ndone |-> 0]
            /\ ret' = ci_bounds(parameter_dists, c)
    /\ UNCHANGED <<conf, heap, est_fitted, parameter_dists, models, pc, draw,
                   n_fits, base_fit_calls, base_snapshot>>
    /\ UNCHANGED blockVars
    /\ UNCHANGED trendVars

\* generate_bootstrap_sample(), lines 45-52, called from outside fit
GenerateBootstrapSampleUnguarded ==
    /\ pc = "idle"
    /\ \E yb \in (IF heap[0][1].fitted THEN GenerateSamples(heap[0][1]) ELSE Noise) :
          call' = [op |-> "generate_bootstrap_sample", result |-> "ok", arg |-> yb,
                   ndone |-> 0]
    /\ ret' = <<>>
    /\ UNCHANGED <<conf, heap, est_fitted, parameter_dists, models, pc, draw,
                   n_fits, base_fit_calls, base_snapshot>>
    /\ UNCHANGED blockVars
    /\ UNCHANGED trendVars
GenerateBootstrapSample ==
    /\ pc = "idle"
    /\ IF ~heap[0][1].fitted
       THEN call' = [op |-> "generate_bootstrap_sample", result |-> "ValueError",
                     arg |-> 0, ndone |-> 0]
       ELSE \E yb \in GenerateSamples(heap[0][1]) :
               call' = [op |-> "generate_bootstrap_sample", result |-> "ok",
                        arg |-> yb, ndone |-> 0]
    /\ ret' = <<>>
    /\ UNCHANGED <<conf, heap, est_fitted, parameter_dists, models, pc, draw,
                   n_fits, base_fit_calls, base_snapshot>>
    /\ UNCHANGED blockVars
    /\ UNCHANGED trendVars

NextBoot ==
    \/ \E y \in Data : FitStart(y)
    \/ \E i \in 1..MaxSamples : i \in DOMAIN draw /\ DrawCopy(i)
    \/ \E i \in 1..MaxSamples : i \in DOMAIN draw /\ DrawSample(i)
    \/ \E i \in 1..MaxSamples : i \in DOMAIN draw /\ DrawRefit(i)
    \/ FitAggregate
    \/ FitAbort
    \/ \E c \in 0..ConfDen : GetCIBounds(c)
    \/ GenerateBootstrapSample

SpecBoot == InitBoot /\ [][NextBoot]_vars

(***************************************************************************)
(* SpecTrend: LinearBrokenTrendFourier with f_order = 0 on the grid        *)
(* t = 0, 1, .., n-1.  The regressors are the intercept, t and             *)
(* where(t > t_break, t - t_break, 0).                                     *)
(***************************************************************************)
\* np.linalg.lstsq returns an empty residual array when the matrix has not
\* full column rank or has no more rows than columns.  The break column is
\* zero when no t exceeds t_break and is a combination of 1 and t when
\* t_break <= t[0]; otherwise the three columns are independent.
Underdetermined(n, t_break) ==
    \/ n <= 3
    \/ t_break <= 0
    \/ t_break >= n - 1

\* The sum of squared residuals of the solve at t_break: it grows with the
\* distance of t_break from the place where the slope of y breaks.
SumSquares(t_break) ==
    IF t_break >= grid.y_break THEN t_break - grid.y_break
    ELSE grid.y_break - t_break

\* _solve_lstsq with the regressors of _regressor_terms(t, t_break): the
\* returned ssr, an array of one element or none.
solve_lstsq(t_break) ==
    IF Underdetermined(grid.n, t_break) THEN <<>> ELSE <<SumSquares(t_break)>>

\* solve_for_location, lines 258-269: np.inf is None here, a finite value v
\* is <<v>>.
solve_for_location(t_break) ==
    LET ssr == solve_lstsq(t_break)
    IN  IF Len(ssr) = 0 THEN None ELSE Some(ssr[1])

\* a < b on objective values, None being +infinity
Lower(a, b) == a # None /\ (b = None \/ a[1] < b[1])

\* lines 272-275
Bounds(self) ==
    IF self.opt_bounds = None THEN <<1, grid.n - 1>> ELSE self.opt_bounds[1]

TBreaks == (-1)..MaxGrid

OptBounds == {None} \cup {Some(<<lo, hi>>) : lo \in {0, MaxGrid - 1}, hi \in {MaxGrid}}

InitTrend ==
    /\ BlockIdle
    /\ BootIdle
    /\ grid \in {[n |-> n, y_break |-> b] : n \in 3..MaxGrid, b \in 1..MaxGrid}
    /\ tm = None
    /\ opt = OptIdle
    /\ tfit = NoFit

\* LinearBrokenTrendFourier.__init__
TrendInit(t_break, opt_bounds) ==
    /\ tm = None
    /\ tm' = Some([fit_t_break |-> (t_break = None),
                  t_break |-> t_break,
                  opt_bounds |-> opt_bounds,
                  solved_at |-> None,
                  fitted |-> FALSE])
    /\ UNCHANGED <<grid, opt, tfit>>
    /\ UNCHANGED blockVars
    /\ UNCHANGED bootVars

\* fit(t, y) up to line 280: with t_break to estimate the optimizer
\* starts, otherwise the final solve is next.
TrendFitStart ==
    /\ tm # None
    /\ opt.phase = "idle"
    /\ tfit.status = "none"
    /\ opt' = [OptIdle EXCEPT !.phase =
                  IF tm[1].fit_t_break THEN "annealing" ELSE "resolve"]
    /\ UNCHANGED <<grid, tm, tfit>>
    /\ UNCHANGED blockVars
    /\ UNCHANGED bootVars

\* dual_annealing evaluates the objective at a point x of the bounds;
\* the evaluation stores the solve's parameters in the model.
OptEval(x) ==
    /\ opt.phase = "annealing"
    /\ opt.evals < MaxEvals
    /\ x >= Bounds(tm[1])[1]
    /\ x <= Bounds(tm[1])[2]
    /\ LET f == solve_for_location(x)
       IN  opt' = IF opt.evals = 0 \/ Lower(f, opt.fun)
                  THEN [opt EXCEPT !.evals = @ + 1, !.x = Some(x), !.fun = f]
                  ELSE [opt EXCEPT !.evals = @ + 1]
    /\ tm' = Some([tm[1] EXCEPT !.solved_at = Some(x)])
    /\ UNCHANGED <<grid, tfit>>
    /\ UNCHANGED blockVars
    /\ UNCHANGED bootVars

\* lines 280-282: dual_annealing returns; t_break = res.x[0]
OptReturn ==
    /\ opt.phase = "annealing"
    /\ opt.evals >= 1
    /\ opt' = [opt EXCEPT !.phase = "resolve"]
    /\ tm' = Some([tm[1] EXCEPT !.t_break = opt.x])
    /\ UNCHANGED <<grid, tfit>>
    /\ UNCHANGED blockVars
    /\ UNCHANGED bootVars

\* lines 284-293 and the return of fit: the solve at t_break, whose ssr is
\* not inspected; fit returns res or res_lstsq and the model is fitted.
FinalSolve ==
    /\ opt.phase = "resolve"
    /\ LET t_break == tm[1].t_break[1]
           res_lstsq == solve_lstsq(t_break)
       IN  /\ tm' = Some([tm[1] EXCEPT !.solved_at = Some(t_break), !.fitted = FittedAfterFit])
           /\ tfit' = [status |-> "returned",
                       value |-> IF tm[1].fit_t_break THEN opt.fun ELSE res_lstsq]
    /\ opt' = [opt EXCEPT !.phase = "done"]
    /\ UNCHANGED grid
    /\ UNCHANGED blockVars
    /\ UNCHANGED bootVars

NextTrend ==
    \/ \E tb \in {None} \cup {Some(x) : x \in TBreaks}, ob \in OptBounds : TrendInit(tb, ob)
    \/ TrendFitStart
    \/ \E x \in TBreaks : OptEval(x)
    \/ OptReturn
    \/ FinalSolve

SpecTrend == InitTrend /\ [][NextTrend]_vars

(***************************************************************************)
(* Properties of SpecBlock                                                 *)
(***************************************************************************)
Generated == gen # None /\ gen[1].status = "ok"

IsPartition(blocks, size, block_size) ==
    /\ Len(blocks) = Max(size \div block_size, 1)
    /\ Concat(blocks) = Arange(size)
    /\ \A i \in 1..Len(blocks) : Len(blocks[i]) >= 1
    /\ \A i, j \in 1..Len(blocks) : Len(blocks[i]) - Len(blocks[j]) <= 1
    /\ (block_size >= size => Len(blocks) = 1)

\* C1: for n >= 1 and block_size >= 1 the blocks of the time grid, of the
\* residuals and of the i.i.d. draws are contiguous, cover every index of
\* [0, n) exactly once, number max(n div block_size, 1), are non-empty, have
\* sizes differing by at most 1, and are a single block when block_size >= n.
C1_BlockPartition ==
    (Generated /\ bw[1].block_size >= 1) =>
        /\ IsPartition(gen[1].t_blocks, t_size, bw[1].block_size)
        /\ IsPartition(gen[1].residuals_blocks, t_size, bw[1].block_size)
        /\ IsPartition(gen[1].iid_blocks, t_size, bw[1].block_size)

C1_Witness ==
    /\ Generated
    /\ bw[1].block_size >= 2
    /\ gen[1].n_blocks >= 3
    /\ \E i, j \in 1..gen[1].n_blocks :
            Len(gen[1].t_blocks[i]) # Len(gen[1].t_blocks[j])

\* C6: no BlockARWild instance with block_size <= 0 exists after
\* construction (construction with a non-positive block_size fails).
C6_NonPositiveBlockSizeRejected ==
    bw # None => bw[1].block_size > 0

\* C9: every block but the last has the same size (only the last block may
\* differ from the others).
C9_OnlyLastBlockDiffers ==
    (Generated /\ bw[1].block_size >= 1) =>
        \A i, j \in 1..(gen[1].n_blocks - 1) :
            Len(gen[1].t_blocks[i]) = Len(gen[1].t_blocks[j])

\* C10 as stated: without ar_coef, each block's gamma is the default formula
\* evaluated at that block's own size; with ar_coef, it is ar_coef.
C10_GammaPerBlock ==
    Generated =>
        \A i \in 1..gen[1].n_blocks :
            gen[1].block_gamma[i] =
                IF bw[1].ar_coef = None
                THEN DefaultGamma(Len(gen[1].t_blocks[i]))
                ELSE bw[1].ar_coef[1]

\* C10 amended: without ar_coef, gamma is the default formula evaluated once
\* at the full series length and used for every block whatever its size;
\* with ar_coef, ar_coef is used unchanged for every block.
C10_GammaFromFullSeries ==
    Generated =>
        \A i \in 1..gen[1].n_blocks :
            gen[1].block_gamma[i] =
                IF bw[1].ar_coef = None
                THEN DefaultGamma(t_size)
                ELSE bw[1].ar_coef[1]

C10_Witness ==
    /\ Generated
    /\ bw[1].ar_coef = None
    /\ gen[1].n_blocks >= 2
    /\ \E i, j \in 1..gen[1].n_blocks :
            /\ Len(gen[1].t_blocks[i]) # Len(gen[1].t_blocks[j])
            /\ DefaultGamma(Len(gen[1].t_blocks[i])) # DefaultGamma(Len(gen[1].t_blocks[j]))
            /\ gen[1].block_gamma[i] = gen[1].block_gamma[j]

(***************************************************************************)
(* Properties of SpecBoot                                                  *)
(***************************************************************************)
FitReturned == call.op = "fit" /\ call.result = "ok"

FitRaised == call.op = "fit" /\ call.result \in DrawErrors \cup RefitErrors

DistLen(dists, k) == IF k \in DOMAIN dists THEN Len(dists[k]) ELSE 0

\* C2: after every successful fit, also a repeated one, every entry of
\* parameter_dists holds exactly n_samples values (and models holds
\* n_samples models when save_models is set).
C2_ExactlyNSamplesAfterFit ==
    FitReturned =>
        /\ \A k \in DOMAIN parameter_dists : Len(parameter_dists[k]) = conf.n_samples
        /\ (conf.save_models => Len(models) = conf.n_samples)

\* C3: within fit the base model is fitted once, before the draws; each
\* draw fits its own copy; and no step of a draw changes the base model:
\* during the draws and after fit, object 0 is as the base fit left it.
C3_BaseModelIsolated ==
    /\ base_fit_calls = n_fits
    /\ (base_snapshot # None => heap[0] = base_snapshot)
    /\ (pc = "draws" =>
          /\ heap[0][1].fitted
          /\ heap[0] = base_snapshot
          /\ \A i \in Draws :
                draw[i].mb # None =>
                    /\ draw[i].mb[1] # 0
                    /\ \A j \in Draws \ {i} : draw[j].mb # draw[i].mb)

C3_Witness ==
    /\ pc = "draws"
    /\ conf.use_dask
    /\ conf.n_samples >= 2
    /\ draw[1].pc = "copied"
    /\ draw[2].pc = "done"
    /\ draw[2].pb # heap[0][1].parameters
    /\ heap[2][1].parameters # heap[1][1].parameters

StateKept == UNCHANGED <<parameter_dists, models, heap, est_fitted>>

\* C4: generate_bootstrap_sample on an unfitted base model and
\* get_ci_bounds on an estimator whose fit has not completed raise
\* ValueError and leave parameter_dists, models and the models' state as
\* they were; neither returns normally without its precondition.
C4_PreconditionErrors ==
    /\ [][(GenerateBootstrapSample /\ ~heap[0][1].fitted) =>
            (call'.result = "ValueError" /\ StateKept)]_vars
    /\ [][((\E c \in 0..ConfDen : GetCIBounds(c)) /\ ~est_fitted) =>
            (call'.result = "ValueError" /\ StateKept)]_vars
    /\ [](call.op = "generate_bootstrap_sample" /\ call.result = "ok"
            => heap[0][1].fitted)
    /\ [](call.op = "get_ci_bounds" /\ call.result = "ok" => est_fitted)
    /\ [](est_fitted => n_fits >= 1 /\ DOMAIN parameter_dists = ParamKeys)

C4_Witness ==
    /\ call.op = "generate_bootstrap_sample"
    /\ call.result = "ValueError"
    /\ ~heap[0][1].fitted
    /\ ~est_fitted

\* C5: once a draw has failed, fit ends by raising that draw's error; the
\* failed draw is not run again; parameter_dists and models change only
\* when all n_samples draws of a batch have returned, and then by exactly
\* n_samples entries, so no batch is ever recorded in part.
C5_FailedDrawAbortsBatch ==
    /\ [][(pc = "draws" /\ pc' = "idle" /\ \E i \in Draws : draw[i].pc = "failed") =>
            /\ call'.op = "fit"
            /\ call'.result \in {draw[i].err : i \in {j \in Draws : draw[j].pc = "failed"}}
            /\ UNCHANGED <<parameter_dists, models>>]_vars
    /\ [][(pc = "draws" /\ pc' = "draws") =>
            \A i \in Draws : draw[i].pc = "failed" => draw'[i] = draw[i]]_vars
    /\ [][(parameter_dists' # parameter_dists \/ models' # models) =>
            /\ pc = "draws"
            /\ \A i \in Draws : draw[i].pc = "done"
            /\ call'.result = "ok"
            /\ \A k \in DOMAIN parameter_dists' :
                  Len(parameter_dists'[k]) = DistLen(parameter_dists, k) + conf.n_samples
            /\ Len(models') = Len(models) + (IF conf.save_models THEN conf.n_samples ELSE 0)]_vars
    /\ [](\A k \in DOMAIN parameter_dists :
            Len(parameter_dists[k]) % conf.n_samples = 0)

C5_Witness ==
    /\ FitRaised
    /\ pc = "idle"
    /\ call.ndone >= 1
    /\ conf.save_models
    /\ parameter_dists = <<>>
    /\ models = <<>>

\* den * q-quantile Q of the values v, for q = num/den: fewer than
\* q(N-1) + 1 values lie below Q, fewer than (1-q)(N-1) + 1 above it, and Q
\* lies within the range of v.
IsQuantile(v, num, den, Q) ==
    LET N == Len(v)
        below == Cardinality({j \in 1..N : den * v[j] < Q})
        above == Cardinality({j \in 1..N : den * v[j] > Q})
    IN  /\ below * den < num * (N - 1) + den
        /\ above * den < (den - num) * (N - 1) + den
        /\ \E j \in 1..N : den * v[j] <= Q
        /\ \E j \in 1..N : den * v[j] >= Q

Column(v, e) == [j \in 1..Len(v) |-> v[j][e]]

\* interval a contains interval b, element by element
Contains(a, b) ==
    \A e \in 1..Len(b[1]) : a[1][e] <= b[1][e] /\ b[2][e] <= a[2][e]

\* C8: on a fitted estimator get_ci_bounds(c) returns for every parameter
\* and element lower <= upper, lower the (alpha/2)-quantile and upper the
\* (1 - alpha/2)-quantile of the draws with alpha = 1 - c; the interval at
\* any level c2 >= c contains it; and the call changes neither
\* parameter_dists nor the models.
C8_CIBounds ==
    /\ [](call.op = "get_ci_bounds" /\ call.result = "ok" =>
            /\ DOMAIN ret = DOMAIN parameter_dists
            /\ \A k \in DOMAIN ret :
                  /\ \A e \in 1..Len(ret[k][1]) :
                        /\ ret[k][1][e] <= ret[k][2][e]
                        /\ IsQuantile(Column(parameter_dists[k], e),
                                      ConfDen - call.arg, 2 * ConfDen, ret[k][1][e])
                        /\ IsQuantile(Column(parameter_dists[k], e),
                                      ConfDen + call.arg, 2 * ConfDen, ret[k][2][e])
                  /\ \A c2 \in call.arg..ConfDen :
                        Contains(ci_bounds(parameter_dists, c2)[k], ret[k]))
    /\ [][(\E c \in 0..ConfDen : GetCIBounds(c)) => StateKept]_vars

C8_Witness ==
    /\ call.op = "get_ci_bounds"
    /\ call.result = "ok"
    /\ call.arg > 0
    /\ call.arg < ConfDen
    /\ n_fits >= 2
    /\ \A k \in DOMAIN ret :
          \A e \in 1..Len(ret[k][1]) :
              /\ ret[k][1][e] < ret[k][2][e]
              /\ \E j \in 1..Len(parameter_dists[k]) :
                    2 * ConfDen * parameter_dists[k][j][e] < ret[k][1][e]

(***************************************************************************)
(* Properties of SpecTrend                                                 *)
(***************************************************************************)
\* C7: an underdetermined solve during an objective evaluation gives the
\* objective +infinity and the search goes on; an underdetermined solve at
\* the final re-solve makes fit raise, so fit never returns normally, the
\* model marked fitted, from an underdetermined final solve.
C7_UnderdeterminedByPhase ==
    /\ (opt.phase = "annealing" /\ opt.evals >= 1 =>
          /\ tfit.status = "none"
          /\ (Underdetermined(grid.n, tm[1].solved_at[1]) /\ opt.x = tm[1].solved_at
                => opt.fun = None))
    /\ (tfit.status = "returned" =>
          ~Underdetermined(grid.n, tm[1].t_break[1]))

====
